---- MODULE Spec2Model ----
(***************************************************************************)
(* Model of src/src/audio_capture.py: AudioRecorder, its audio callback    *)
(* (the producer, run by the device thread once per block) and the two     *)
(* drivers record_until_silence and record_continuous (the consumer).      *)
(*                                                                         *)
(* Time is counted in block periods: while a stream is open the device     *)
(* delivers one block of BlockSize samples per tick, and the callback      *)
(* stamps it with time.time() = now.  Samples are numbered in the order    *)
(* the device delivers them (the block of tick t holds samples             *)
(* (t-1)*BlockSize+1 .. t*BlockSize), so order, loss and duplication of    *)
(* samples are visible in the buffers.  The configuration values are       *)
(* scaled down from the defaults of src/src/config.py; the relations the   *)
(* code computes between them (buffer capacities, comparisons) are kept.   *)
(***************************************************************************)
EXTENDS Integers, Sequences, FiniteSets, TLC

VARIABLES
    now,                  \* time.time(), in block periods
    min_speech_samples,   \* self.min_speech_samples (configuration)
    buffer,               \* self.buffer      (deque, maxlen MaxSamples)
    pre_buffer,           \* self.pre_buffer  (deque, maxlen PreBufferSamples)
    is_recording,         \* self.is_recording
    speech_started,       \* self.speech_started
    last_speech_time,     \* self.last_speech_time
    recording_start_time, \* self.recording_start_time
    continuous_mode,      \* self._continuous_mode
    stop_continuous,      \* self._stop_continuous (threading.Event)
    segment_ready,        \* self._segment_ready   (threading.Event)
    current_segment,      \* self._current_segment (None or an array)
    stream_open,          \* the sd.InputStream of the session is active
    block_pending,        \* the device has delivered a block the callback has not taken
    cb_pc,                \* position of the running _audio_callback
    cb_chunk,             \* its audio_chunk
    cb_time,              \* its current_time
    speech_prob,          \* its speech_prob (NoBlock outside the callback)
    vad_failed,           \* history: the classifier raised on the block this callback handles
    mode,                 \* the method that thread runs or ran last: "single", "continuous"
    pc,                   \* position of the thread running record_*
    wait_since,           \* when that thread entered its current timed wait
    elapsed,              \* local elapsed of record_until_silence
    exit_reason,          \* how record_until_silence left its polling loop
    segment,              \* local segment / final_segment of record_continuous
    result,               \* value returned by record_until_silence
    outcome,              \* the return site that produced result
    yielded,              \* the segments record_continuous has yielded, in order
    raised,               \* the exception record_* lets out to its caller ("none": it returned)
    at_stop,              \* history: << len(buffer), segments yielded >> at the stop_continuous() call
    utterance,            \* history: every sample appended to buffer since it was last cleared
    onset_pre,            \* history: pre_buffer at the last speech onset
    notified,             \* history: on_speech_start() calls since the accumulator was last reset
    speech_samples,       \* history: samples of the blocks classified as speech since then
    sessions,             \* number of sessions started
    max_size,             \* AudioChunkCache.max_size
    cache,                \* AudioChunkCache._cache (OrderedDict), oldest entry first
    hits,                 \* AudioChunkCache.hits
    misses,               \* AudioChunkCache.misses
    cache_call,           \* the last get_or_compute call: key, whether compute_fn ran, what came back
    is_running,           \* TriggerServer.is_running (the socket exists and is listened on)
    on_trigger,           \* TriggerServer.on_trigger: "none" or "handler"
    server_pc,            \* position of TriggerServer._handle_client for the connection
    to_server,            \* bytes the client wrote that the server has not read
    to_client,            \* bytes (or end of stream) the server sent that the client has not read
    trigger_type,         \* trigger_type of _handle_client: what on_trigger was called with
    handler_outcome,      \* how that on_trigger call ended
    client_pc,            \* position of TriggerClient.send_trigger
    sent,                 \* its argument trigger_type
    success,              \* what send_trigger returned
    failure,              \* history: the except clause or comparison that made it return False
    requests,             \* daemon: where each process_request task is
    workers,              \* TUI: where each _record_single / _record_continuous worker is
    app_is_recording,     \* STTApp._is_recording
    app_is_continuous,    \* STTApp._is_continuous
    stop_requested        \* STTApp._stop_requested

vars == << now, min_speech_samples, buffer, pre_buffer, is_recording, speech_started,
           last_speech_time, recording_start_time, continuous_mode, stop_continuous,
           segment_ready, current_segment, stream_open, block_pending, cb_pc, cb_chunk,
           cb_time, speech_prob, vad_failed, mode, pc, wait_since, elapsed, exit_reason, segment, result, outcome,
           yielded, raised, at_stop, utterance, onset_pre, speech_samples, notified, sessions,
           max_size, cache, hits, misses, cache_call,
           is_running, on_trigger, server_pc, to_server, to_client, trigger_type,
           handler_outcome, client_pc, sent, success, failure,
           requests, workers, app_is_recording, app_is_continuous, stop_requested >>

recorder_vars == << buffer, pre_buffer, is_recording, speech_started, last_speech_time,
                    recording_start_time, continuous_mode, stop_continuous,
                    segment_ready, current_segment >>
cb_locals == << cb_chunk, cb_time >>
cb_all == << cb_pc, cb_chunk, cb_time, speech_prob, vad_failed >>
consumer_locals == << wait_since, elapsed, exit_reason, segment, result, outcome, yielded >>
history_vars == << utterance, onset_pre, speech_samples, notified >>
session_vars == << sessions, mode, raised, at_stop >>
cache_vars == << max_size, cache, hits, misses, cache_call >>
\* the state of the other modules, which the recorder does not touch
trigger_vars == << is_running, on_trigger, server_pc, to_server, to_client, trigger_type,
                  handler_outcome, client_pc, sent, success, failure >>
service_vars == << requests, workers, app_is_recording, app_is_continuous, stop_requested >>
other_vars == << cache_vars, trigger_vars, service_vars >>
recorder_all == << now, min_speech_samples, recorder_vars, stream_open, block_pending, cb_all,
                  pc, consumer_locals, history_vars, session_vars >>

(***************************************************************************)
(* Bounds of the model.                                                    *)
(***************************************************************************)
MaxTime == 8       \* the clock stops here
MaxSessions == 1   \* record_* calls made on the recorder
LongTime == 12     \* where the clock stops in the long continuous sessions of LongSpec
Lateness == 1      \* a timed wait returns at most this long after its timeout
MaxCacheSize == 2  \* largest max_size an AudioChunkCache is built with
MaxCalls == 4      \* get_or_compute calls counted between two clear() calls
MaxRequests == 2   \* triggers the daemon receives
MaxWorkers == 2    \* recording workers the TUI starts

(***************************************************************************)
(* Configuration, scaled to block periods and small buffers.               *)
(***************************************************************************)
BlockSize == 2               \* AudioConfig.blocksize: samples per block (per tick)
SilenceDuration == 3         \* AudioConfig.silence_duration
MaxRecordingDuration == 6    \* AudioConfig.max_recording_duration
PreBufferSamples == 3        \* int(pre_buffer_duration * sample_rate)
NoSpeechGrace == 2           \* the literal 5.0 of record_until_silence
PollInterval == 1            \* the 0.1 of time.sleep(0.1) and wait(timeout=0.1)
Threshold == 1               \* VADConfig.threshold
\* a single-shot session is started only while the clock leaves it room to end
SessionRoom == MaxRecordingDuration + PollInterval + Lateness
MaxSamples == BlockSize * MaxRecordingDuration  \* sample_rate * max_recording_duration
MinSpeechChoices == {5, 9}   \* int(min_speech_duration * sample_rate), two settings
Probs == 0 .. 2              \* speech probabilities: below, at and above Threshold

DefaultMaxSize == 2          \* max_size: int = 100 of AudioChunkCache.__init__
NoCall == [key |-> << >>, computed |-> FALSE, returned |-> "nothing"]

NoData == << >>              \* nothing to read on a connection
EndOfStream == << "" >>      \* read() returns b"": the peer closed

None == << 0 >>              \* Python's None; samples are numbered from 1
NoBlock == 0 - 1             \* value of speech_prob while no callback runs
VadRaises == 0 - 2           \* the classifier raises instead of giving a probability
VadOutcomes == Probs \cup {VadRaises}

(***************************************************************************)
(* collections.deque(maxlen=...)                                           *)
(***************************************************************************)
\* a bounded buffer that refuses the new item when it is full
AppendDropsNew(d, x, maxlen) ==
    IF Len(d) >= maxlen THEN d ELSE Append(d, x)

AppendBounded(d, x, maxlen) ==
    IF maxlen = 0 THEN d
    ELSE IF Len(d) = maxlen THEN Append(Tail(d), x)
    ELSE Append(d, x)

RECURSIVE DequeExtend(_, _, _)
DequeExtend(d, items, maxlen) ==
    IF items = << >> THEN d
    ELSE DequeExtend(AppendBounded(d, Head(items), maxlen), Tail(items), maxlen)

BufferExtend(items) == DequeExtend(buffer, items, MaxSamples)
PreBufferExtend(items) == DequeExtend(pre_buffer, items, PreBufferSamples)

\* the block the device delivers at tick t
Chunk(t) == [i \in 1 .. BlockSize |-> (t - 1) * BlockSize + i]

\* _detect_speech with an except clause that lets the failed block count as speech
DetectSpeechFailsHigh(vad) == IF vad = VadRaises THEN 2 ELSE vad

\* _detect_speech: the classifier's probability, 0.0 when it raises
DetectSpeech(vad) == IF vad = VadRaises THEN 0 ELSE vad

IsSpeechInclusive(prob) == prob >= Threshold
IsSpeech(prob) == prob > Threshold

SilenceExceededStrict(current_time) == current_time - last_speech_time > SilenceDuration
SilenceExceeded(current_time) == current_time - last_speech_time >= SilenceDuration

EnoughAudio(buf) == Len(buf) >= min_speech_samples

(***************************************************************************)
(* Initial state: AudioRecorder.__init__                                   *)
(***************************************************************************)
RecorderNew ==
    /\ now = 0
    /\ min_speech_samples \in MinSpeechChoices
    /\ buffer = << >>
    /\ pre_buffer = << >>
    /\ is_recording = FALSE
    /\ speech_started = FALSE
    /\ last_speech_time = 0
    /\ recording_start_time = 0
    /\ continuous_mode = FALSE
    /\ stop_continuous = FALSE
    /\ segment_ready = FALSE
    /\ current_segment = None
    /\ stream_open = FALSE
    /\ block_pending = FALSE
    /\ cb_pc = "idle"
    /\ cb_chunk = << >>
    /\ cb_time = 0
    /\ speech_prob = NoBlock
    /\ vad_failed = FALSE
    /\ mode = "none"
    /\ pc = "idle"
    /\ wait_since = 0
    /\ elapsed = 0
    /\ exit_reason = "none"
    /\ segment = None
    /\ result = None
    /\ outcome = "none"
    /\ yielded = << >>
    /\ raised = "none"
    /\ at_stop = None
    /\ utterance = << >>
    /\ onset_pre = << >>
    /\ speech_samples = 0
    /\ notified = 0
    /\ sessions = 0

\* AudioChunkCache.__init__ (src/src/cache.py)
CacheNew(size) ==
    /\ max_size = size
    /\ cache = << >>
    /\ hits = 0
    /\ misses = 0
    /\ cache_call = NoCall

\* TriggerServer.__init__ and TriggerClient.__init__ (src/src/hotkey.py)
TriggerNew(handler) ==
    /\ is_running = FALSE
    /\ on_trigger = handler
    /\ server_pc = "idle"
    /\ to_server = NoData
    /\ to_client = NoData
    /\ trigger_type = "none"
    /\ handler_outcome = "none"
    /\ client_pc = "idle"
    /\ sent = "none"
    /\ success = "pending"
    /\ failure = "none"

\* STTService.__init__ (src/src/main.py) and STTApp.__init__ (src/src/tui.py):
\* no request task and no worker yet
ServiceNew ==
    /\ requests = [i \in 1 .. MaxRequests |-> "none"]
    /\ workers = [i \in 1 .. MaxWorkers |-> "none"]
    /\ app_is_recording = FALSE
    /\ app_is_continuous = FALSE
    /\ stop_requested = FALSE

Init == RecorderNew /\ CacheNew(DefaultMaxSize) /\ TriggerNew("none") /\ ServiceNew

(***************************************************************************)
(* The device and the clock.  While a stream is open every tick delivers   *)
(* one block; the callback of a block finishes before the next block is    *)
(* due.  A thread in a timed wait is woken at most Lateness after its      *)
(* timeout; its other statements take no time but interleave freely with   *)
(* the steps of the callback.  A generator suspended at a yield stays      *)
(* suspended for as long as its caller likes.                              *)
(***************************************************************************)
Waiting == pc \in {"sleep", "cwait"}
Suspended == pc \in {"yielded", "fyielded"}

Tick ==
    /\ now < MaxTime
    /\ pc \notin {"idle", "done"}
    /\ Waiting \/ Suspended
    /\ Waiting => now < wait_since + PollInterval + Lateness
    /\ cb_pc = "idle"
    /\ ~block_pending
    /\ now' = now + 1
    /\ block_pending' = stream_open
    /\ UNCHANGED << min_speech_samples, other_vars, recorder_vars, stream_open, cb_all, pc,
                    consumer_locals, history_vars, session_vars >>

(***************************************************************************)
(* _audio_callback, one action per group of statements                     *)
(***************************************************************************)
cb_frame == << now, min_speech_samples, other_vars, stream_open, pc, consumer_locals, session_vars >>

\* lines 145-161 and 178-180: classify the block (_detect_speech, lines 94-130)
\* and branch
CbEnter(vad) ==
    /\ stream_open
    /\ block_pending
    /\ cb_pc = "idle"
    /\ block_pending' = FALSE
    /\ cb_chunk' = Chunk(now)
    /\ cb_time' = now
    /\ IF IsSpeech(DetectSpeech(vad))
       THEN /\ last_speech_time' = now
            /\ cb_pc' = IF speech_started THEN "append" ELSE "started"
       ELSE /\ last_speech_time' = last_speech_time
            /\ cb_pc' = IF speech_started THEN "sil_append" ELSE "preroll"
    /\ speech_prob' = DetectSpeech(vad)
    /\ vad_failed' = (vad = VadRaises)
    /\ UNCHANGED << buffer, pre_buffer, is_recording, speech_started, recording_start_time,
                    continuous_mode, stop_continuous, segment_ready, current_segment,
                    history_vars, cb_frame >>

\* line 163
CbSpeechStarted ==
    /\ cb_pc = "started"
    /\ speech_started' = TRUE
    /\ cb_pc' = "onset"
    /\ speech_prob' = speech_prob
    /\ vad_failed' = (speech_prob' # NoBlock /\ vad_failed)
    /\ UNCHANGED << buffer, pre_buffer, is_recording, last_speech_time, recording_start_time,
                    continuous_mode, stop_continuous, segment_ready, current_segment,
                    block_pending, cb_locals, history_vars, cb_frame >>

CbOnsetKeepsPreBuffer ==
    /\ cb_pc = "onset"
    /\ buffer' = (IF pre_buffer # << >> THEN BufferExtend(pre_buffer) ELSE buffer)
    /\ pre_buffer' = pre_buffer
    /\ utterance' = utterance \o pre_buffer
    /\ onset_pre' = pre_buffer
    /\ speech_samples' = 0
    /\ notified' = notified + 1
    /\ cb_pc' = "append"
    /\ speech_prob' = speech_prob
    /\ vad_failed' = (speech_prob' # NoBlock /\ vad_failed)
    /\ UNCHANGED << is_recording, speech_started, last_speech_time, recording_start_time,
                    continuous_mode, stop_continuous, segment_ready, current_segment,
                    block_pending, cb_locals, cb_frame >>

\* lines 165-171: move the pre-buffer into the main buffer and call
\* on_speech_start
CbOnset ==
    /\ cb_pc = "onset"
    /\ buffer' = (IF pre_buffer # << >> THEN BufferExtend(pre_buffer) ELSE buffer)
    /\ pre_buffer' = << >>
    /\ utterance' = utterance \o pre_buffer
    /\ onset_pre' = pre_buffer
    /\ speech_samples' = 0
    /\ notified' = notified + 1
    /\ cb_pc' = "append"
    /\ speech_prob' = speech_prob
    /\ vad_failed' = (speech_prob' # NoBlock /\ vad_failed)
    /\ UNCHANGED << is_recording, speech_started, last_speech_time, recording_start_time,
                    continuous_mode, stop_continuous, segment_ready, current_segment,
                    block_pending, cb_locals, cb_frame >>

CbAppendNotifies ==
    /\ cb_pc = "append"
    /\ buffer' = BufferExtend(cb_chunk)
    /\ utterance' = utterance \o cb_chunk
    /\ speech_samples' = speech_samples + Len(cb_chunk)
    /\ notified' = notified + 1
    /\ cb_pc' = "idle"
    /\ speech_prob' = NoBlock
    /\ vad_failed' = (speech_prob' # NoBlock /\ vad_failed)
    /\ UNCHANGED << pre_buffer, is_recording, speech_started, last_speech_time,
                    recording_start_time, continuous_mode, stop_continuous, segment_ready,
                    current_segment, block_pending, cb_locals, onset_pre, cb_frame >>

\* line 176
CbAppend ==
    /\ cb_pc = "append"
    /\ buffer' = BufferExtend(cb_chunk)
    /\ utterance' = utterance \o cb_chunk
    /\ speech_samples' = speech_samples + Len(cb_chunk)
    /\ cb_pc' = "idle"
    /\ speech_prob' = NoBlock
    /\ vad_failed' = (speech_prob' # NoBlock /\ vad_failed)
    /\ UNCHANGED << pre_buffer, is_recording, speech_started, last_speech_time,
                    recording_start_time, continuous_mode, stop_continuous, segment_ready,
                    current_segment, block_pending, cb_locals, onset_pre, notified, cb_frame >>

\* lines 182-191 and 200: silence while speaking
CbSilAppend ==
    /\ cb_pc = "sil_append"
    /\ buffer' = BufferExtend(cb_chunk)
    /\ utterance' = utterance \o cb_chunk
    /\ cb_pc' = IF SilenceExceeded(cb_time)
                THEN (IF continuous_mode THEN "segment" ELSE "stop")
                ELSE "idle"
    /\ speech_prob' = IF cb_pc' = "idle" THEN NoBlock ELSE speech_prob
    /\ vad_failed' = (speech_prob' # NoBlock /\ vad_failed)
    /\ UNCHANGED << pre_buffer, is_recording, speech_started, last_speech_time,
                    recording_start_time, continuous_mode, stop_continuous, segment_ready,
                    current_segment, block_pending, cb_locals, onset_pre, speech_samples, notified,
                    cb_frame >>

\* line 202
CbStop ==
    /\ cb_pc = "stop"
    /\ is_recording' = FALSE
    /\ cb_pc' = "idle"
    /\ speech_prob' = NoBlock
    /\ vad_failed' = (speech_prob' # NoBlock /\ vad_failed)
    /\ UNCHANGED << buffer, pre_buffer, speech_started, last_speech_time,
                    recording_start_time, continuous_mode, stop_continuous, segment_ready,
                    current_segment, block_pending, cb_locals, history_vars, cb_frame >>

\* lines 193-194
CbSegment ==
    /\ cb_pc = "segment"
    /\ IF EnoughAudio(buffer)
       THEN /\ current_segment' = buffer
            /\ cb_pc' = "ready"
       ELSE /\ current_segment' = current_segment
            /\ cb_pc' = "reset"
    /\ speech_prob' = speech_prob
    /\ vad_failed' = (speech_prob' # NoBlock /\ vad_failed)
    /\ UNCHANGED << buffer, pre_buffer, is_recording, speech_started, last_speech_time,
                    recording_start_time, continuous_mode, stop_continuous, segment_ready,
                    block_pending, cb_locals, history_vars, cb_frame >>

\* line 195
CbReady ==
    /\ cb_pc = "ready"
    /\ segment_ready' = TRUE
    /\ cb_pc' = "reset"
    /\ speech_prob' = speech_prob
    /\ vad_failed' = (speech_prob' # NoBlock /\ vad_failed)
    /\ UNCHANGED << buffer, pre_buffer, is_recording, speech_started, last_speech_time,
                    recording_start_time, continuous_mode, stop_continuous, current_segment,
                    block_pending, cb_locals, history_vars, cb_frame >>

\* line 197
CbClear ==
    /\ cb_pc = "reset"
    /\ buffer' = << >>
    /\ utterance' = << >>
    /\ speech_samples' = 0
    /\ notified' = 0
    /\ cb_pc' = "restart"
    /\ speech_prob' = speech_prob
    /\ vad_failed' = (speech_prob' # NoBlock /\ vad_failed)
    /\ UNCHANGED << pre_buffer, is_recording, speech_started, last_speech_time,
                    recording_start_time, continuous_mode, stop_continuous, segment_ready,
                    current_segment, block_pending, cb_locals, onset_pre, cb_frame >>

CbRestartKeepsSilenceTimer ==
    /\ cb_pc = "restart"
    /\ speech_started' = FALSE
    /\ last_speech_time' = last_speech_time
    /\ cb_pc' = "idle"
    /\ speech_prob' = NoBlock
    /\ vad_failed' = (speech_prob' # NoBlock /\ vad_failed)
    /\ UNCHANGED << buffer, pre_buffer, is_recording, recording_start_time,
                    continuous_mode, stop_continuous, segment_ready, current_segment,
                    block_pending, cb_locals, history_vars, cb_frame >>

\* lines 198-199
CbRestart ==
    /\ cb_pc = "restart"
    /\ speech_started' = FALSE
    /\ last_speech_time' = cb_time
    /\ cb_pc' = "idle"
    /\ speech_prob' = NoBlock
    /\ vad_failed' = (speech_prob' # NoBlock /\ vad_failed)
    /\ UNCHANGED << buffer, pre_buffer, is_recording, recording_start_time,
                    continuous_mode, stop_continuous, segment_ready, current_segment,
                    block_pending, cb_locals, history_vars, cb_frame >>

CbPreRollIntoMain ==
    /\ cb_pc = "preroll"
    /\ buffer' = BufferExtend(cb_chunk)
    /\ cb_pc' = "idle"
    /\ speech_prob' = NoBlock
    /\ vad_failed' = (speech_prob' # NoBlock /\ vad_failed)
    /\ UNCHANGED << pre_buffer, is_recording, speech_started, last_speech_time,
                    recording_start_time, continuous_mode, stop_continuous, segment_ready,
                    current_segment, block_pending, cb_locals, history_vars, cb_frame >>

\* line 206
CbPreRoll ==
    /\ cb_pc = "preroll"
    /\ pre_buffer' = PreBufferExtend(cb_chunk)
    /\ cb_pc' = "idle"
    /\ speech_prob' = NoBlock
    /\ vad_failed' = (speech_prob' # NoBlock /\ vad_failed)
    /\ UNCHANGED << buffer, is_recording, speech_started, last_speech_time,
                    recording_start_time, continuous_mode, stop_continuous, segment_ready,
                    current_segment, block_pending, cb_locals, history_vars, cb_frame >>

Callback ==
    \/ \E vad \in VadOutcomes : CbEnter(vad)
    \/ CbSpeechStarted
    \/ CbOnset
    \/ CbAppend
    \/ CbSilAppend
    \/ CbStop
    \/ CbSegment
    \/ CbReady
    \/ CbClear
    \/ CbRestart
    \/ CbPreRoll

(***************************************************************************)
(* record_until_silence                                                    *)
(***************************************************************************)
consumer_frame == << now, min_speech_samples, other_vars, block_pending, cb_all >>

\* lines 215-220: reset the state
StartSingle ==
    /\ pc \in {"idle", "done"}
    /\ sessions < MaxSessions
    /\ now + SessionRoom <= MaxTime
    /\ sessions' = sessions + 1
    /\ buffer' = << >>
    /\ pre_buffer' = << >>
    /\ is_recording' = TRUE
    /\ speech_started' = FALSE
    /\ last_speech_time' = now
    /\ recording_start_time' = now
    /\ utterance' = << >>
    /\ onset_pre' = << >>
    /\ speech_samples' = 0
    /\ notified' = 0
    /\ result' = None
    /\ outcome' = "none"
    /\ exit_reason' = "none"
    /\ mode' = "single"
    /\ raised' = "none"
    /\ at_stop' = None
    /\ pc' = "open"
    /\ UNCHANGED << continuous_mode, stop_continuous, segment_ready, current_segment,
                    stream_open, wait_since, elapsed, segment, yielded, consumer_frame >>

\* lines 229-235: sd.InputStream(...).__enter__ succeeds
OpenStream ==
    /\ pc = "open"
    /\ stream_open' = TRUE
    /\ pc' = "loop"
    /\ UNCHANGED << recorder_vars, consumer_locals, history_vars, session_vars, consumer_frame >>

OpenStreamFailsThenPolls ==
    /\ pc = "open"
    /\ result' = None
    /\ outcome' = "DeviceError"
    /\ raised' = "none"
    /\ pc' = "loop"
    /\ UNCHANGED << recorder_vars, stream_open, wait_since, elapsed, exit_reason, segment,
                    yielded, history_vars, sessions, mode, at_stop, consumer_frame >>

\* lines 229-235 and 253-255: opening the stream raises
OpenStreamFails ==
    /\ pc = "open"
    /\ result' = None
    /\ outcome' = "DeviceError"
    /\ raised' = "none"
    /\ pc' = "done"
    /\ UNCHANGED << recorder_vars, stream_open, wait_since, elapsed, exit_reason, segment,
                    yielded, history_vars, sessions, mode, at_stop, consumer_frame >>

\* line 237: while self.is_recording
Loop ==
    /\ pc = "loop"
    /\ IF is_recording
       THEN /\ pc' = "sleep"
            /\ wait_since' = now
            /\ exit_reason' = exit_reason
       ELSE /\ pc' = "close"
            /\ wait_since' = wait_since
            /\ exit_reason' = "silence"
    /\ UNCHANGED << recorder_vars, stream_open, elapsed, segment, result, outcome, yielded,
                    history_vars, session_vars, consumer_frame >>

\* lines 238-241: time.sleep(0.1); elapsed = time.time() - self.recording_start_time
Sleep ==
    /\ pc = "sleep"
    /\ now >= wait_since + PollInterval
    /\ elapsed' = now - recording_start_time
    /\ pc' = "check"
    /\ UNCHANGED << recorder_vars, stream_open, wait_since, exit_reason, segment, result,
                    outcome, yielded, history_vars, session_vars, consumer_frame >>

MaxDurationReachedStrict == elapsed > MaxRecordingDuration
MaxDurationReached == elapsed >= MaxRecordingDuration

NoSpeechTimedOutWhileSpeaking == speech_started /\ elapsed > NoSpeechGrace
NoSpeechTimedOut == ~speech_started /\ elapsed > NoSpeechGrace

\* lines 242-251: the two timeouts
Check ==
    /\ pc = "check"
    /\ IF MaxDurationReached
       THEN /\ exit_reason' = "max"
            /\ pc' = "close"
       ELSE IF NoSpeechTimedOut
       THEN /\ exit_reason' = "nospeech"
            /\ pc' = "close"
       ELSE /\ exit_reason' = exit_reason
            /\ pc' = "loop"
    /\ UNCHANGED << recorder_vars, stream_open, wait_since, elapsed, segment, result,
                    outcome, yielded, history_vars, session_vars, consumer_frame >>

\* leaving the with block (line 235): the stream is closed once the running
\* callback has returned; the return None of line 251 leaves through it
CloseStream ==
    /\ pc = "close"
    /\ cb_pc = "idle"
    /\ stream_open' = FALSE
    /\ block_pending' = FALSE
    /\ IF exit_reason = "nospeech"
       THEN /\ result' = None
            /\ outcome' = "NoSpeechTimeout"
            /\ pc' = "done"
       ELSE /\ result' = result
            /\ outcome' = outcome
            /\ pc' = "final"
    /\ UNCHANGED << now, min_speech_samples, other_vars, recorder_vars, cb_all, wait_since,
                    elapsed, exit_reason, segment, yielded, history_vars, session_vars >>

FinalChecksPreBuffer ==
    /\ pc = "final"
    /\ IF ~EnoughAudio(pre_buffer)
       THEN /\ result' = None
            /\ outcome' = "TooShort"
       ELSE /\ result' = buffer
            /\ outcome' = IF exit_reason = "max" THEN "Truncated" ELSE "SegmentComplete"
    /\ pc' = "done"
    /\ UNCHANGED << recorder_vars, stream_open, wait_since, elapsed, exit_reason, segment,
                    yielded, history_vars, session_vars, consumer_frame >>

FinalDropsTruncated ==
    /\ pc = "final"
    /\ IF ~EnoughAudio(buffer)
       THEN /\ result' = None
            /\ outcome' = "TooShort"
       ELSE /\ result' = IF exit_reason = "max" THEN None ELSE buffer
            /\ outcome' = IF exit_reason = "max" THEN "Truncated" ELSE "SegmentComplete"
    /\ pc' = "done"
    /\ UNCHANGED << recorder_vars, stream_open, wait_since, elapsed, exit_reason, segment,
                    yielded, history_vars, session_vars, consumer_frame >>

\* lines 258-270
Final ==
    /\ pc = "final"
    /\ IF ~EnoughAudio(buffer)
       THEN /\ result' = None
            /\ outcome' = "TooShort"
       ELSE /\ result' = buffer
            /\ outcome' = IF exit_reason = "max" THEN "Truncated" ELSE "SegmentComplete"
    /\ pc' = "done"
    /\ UNCHANGED << recorder_vars, stream_open, wait_since, elapsed, exit_reason, segment,
                    yielded, history_vars, session_vars, consumer_frame >>

RecordUntilSilence ==
    \/ StartSingle
    \/ OpenStream
    \/ OpenStreamFails
    \/ Loop
    \/ Sleep
    \/ Check
    \/ CloseStream
    \/ Final

(***************************************************************************)
(* record_continuous (a generator: it runs while its caller pulls) and     *)
(* stop_continuous                                                         *)
(***************************************************************************)
StartContinuousKeepsStop ==
    /\ pc \in {"idle", "done"}
    /\ sessions < MaxSessions
    /\ sessions' = sessions + 1
    /\ buffer' = << >>
    /\ pre_buffer' = << >>
    /\ is_recording' = TRUE
    /\ speech_started' = FALSE
    /\ last_speech_time' = now
    /\ recording_start_time' = now
    /\ continuous_mode' = TRUE
    /\ stop_continuous' = stop_continuous
    /\ segment_ready' = FALSE
    /\ current_segment' = None
    /\ utterance' = << >>
    /\ onset_pre' = << >>
    /\ speech_samples' = 0
    /\ notified' = 0
    /\ result' = None
    /\ outcome' = "none"
    /\ exit_reason' = "none"
    /\ segment' = None
    /\ yielded' = << >>
    /\ mode' = "continuous"
    /\ raised' = "none"
    /\ at_stop' = None
    /\ pc' = "copen"
    /\ UNCHANGED << stream_open, wait_since, elapsed, consumer_frame >>

\* lines 283-294: reset the state, enable continuous mode
StartContinuous ==
    /\ pc \in {"idle", "done"}
    /\ sessions < MaxSessions
    /\ sessions' = sessions + 1
    /\ buffer' = << >>
    /\ pre_buffer' = << >>
    /\ is_recording' = TRUE
    /\ speech_started' = FALSE
    /\ last_speech_time' = now
    /\ recording_start_time' = now
    /\ continuous_mode' = TRUE
    /\ stop_continuous' = FALSE
    /\ segment_ready' = FALSE
    /\ current_segment' = None
    /\ utterance' = << >>
    /\ onset_pre' = << >>
    /\ speech_samples' = 0
    /\ notified' = 0
    /\ result' = None
    /\ outcome' = "none"
    /\ exit_reason' = "none"
    /\ segment' = None
    /\ yielded' = << >>
    /\ mode' = "continuous"
    /\ raised' = "none"
    /\ at_stop' = None
    /\ pc' = "copen"
    /\ UNCHANGED << stream_open, wait_since, elapsed, consumer_frame >>

\* lines 303-309: the stream opens
OpenContinuous ==
    /\ pc = "copen"
    /\ stream_open' = TRUE
    /\ pc' = "cloop"
    /\ UNCHANGED << recorder_vars, consumer_locals, history_vars, session_vars, consumer_frame >>

\* lines 303-309 and 330-331: opening the stream raises; the except clause
\* logs the error and lets nothing out
OpenContinuousFails ==
    /\ pc = "copen"
    /\ outcome' = "DeviceError"
    /\ raised' = "none"
    /\ pc' = "cfinally"
    /\ UNCHANGED << recorder_vars, stream_open, wait_since, elapsed, exit_reason, segment,
                    result, yielded, history_vars, sessions, mode, at_stop, consumer_frame >>

\* line 310: while not self._stop_continuous.is_set()
ContinuousLoop ==
    /\ pc = "cloop"
    /\ IF stop_continuous
       THEN /\ pc' = "flush"
            /\ wait_since' = wait_since
       ELSE /\ pc' = "cwait"
            /\ wait_since' = now
    /\ UNCHANGED << recorder_vars, stream_open, elapsed, exit_reason, segment, result,
                    outcome, yielded, history_vars, session_vars, consumer_frame >>

\* line 312: self._segment_ready.wait(timeout=0.1)
WaitSegment ==
    /\ pc = "cwait"
    /\ IF segment_ready
       THEN pc' = "cclear"
       ELSE /\ now >= wait_since + PollInterval
            /\ pc' = "cloop"
    /\ UNCHANGED << recorder_vars, stream_open, consumer_locals, history_vars, session_vars,
                    consumer_frame >>

\* line 313
ClearReady ==
    /\ pc = "cclear"
    /\ segment_ready' = FALSE
    /\ pc' = "cread"
    /\ UNCHANGED << buffer, pre_buffer, is_recording, speech_started, last_speech_time,
                    recording_start_time, continuous_mode, stop_continuous, current_segment,
                    stream_open, consumer_locals, history_vars, session_vars, consumer_frame >>

\* lines 315-316
ReadSegment ==
    /\ pc = "cread"
    /\ IF current_segment # None
       THEN /\ segment' = current_segment
            /\ pc' = "cnull"
       ELSE /\ segment' = segment
            /\ pc' = "cloop"
    /\ UNCHANGED << recorder_vars, stream_open, wait_since, elapsed, exit_reason, result,
                    outcome, yielded, history_vars, session_vars, consumer_frame >>

\* lines 317-321: forget the slot and yield the segment
YieldSegment ==
    /\ pc = "cnull"
    /\ current_segment' = None
    /\ yielded' = Append(yielded, segment)
    /\ pc' = "yielded"
    /\ UNCHANGED << buffer, pre_buffer, is_recording, speech_started, last_speech_time,
                    recording_start_time, continuous_mode, stop_continuous, segment_ready,
                    stream_open, wait_since, elapsed, exit_reason, segment, result, outcome,
                    history_vars, session_vars, consumer_frame >>

\* the caller asks for the next segment
Resume ==
    /\ pc \in {"yielded", "fyielded"}
    /\ pc' = IF pc = "yielded" THEN "cloop" ELSE "cexit"
    /\ UNCHANGED << recorder_vars, stream_open, consumer_locals, history_vars, session_vars,
                    consumer_frame >>

\* line 324
Flush ==
    /\ pc = "flush"
    /\ pc' = IF EnoughAudio(buffer) THEN "fsnap" ELSE "cexit"
    /\ UNCHANGED << recorder_vars, stream_open, consumer_locals, history_vars, session_vars,
                    consumer_frame >>

\* lines 325-328
YieldFinal ==
    /\ pc = "fsnap"
    /\ segment' = buffer
    /\ yielded' = Append(yielded, buffer)
    /\ pc' = "fyielded"
    /\ UNCHANGED << recorder_vars, stream_open, wait_since, elapsed, exit_reason, result,
                    outcome, history_vars, session_vars, consumer_frame >>

\* leaving the with block (line 309)
CloseContinuous ==
    /\ pc = "cexit"
    /\ cb_pc = "idle"
    /\ stream_open' = FALSE
    /\ block_pending' = FALSE
    /\ pc' = "cfinally"
    /\ UNCHANGED << now, min_speech_samples, other_vars, recorder_vars, cb_all,
                    consumer_locals, history_vars, session_vars >>

FinallyLeavesRecording ==
    /\ pc = "cfinally"
    /\ continuous_mode' = FALSE
    /\ is_recording' = is_recording
    /\ pc' = "done"
    /\ UNCHANGED << buffer, pre_buffer, speech_started, last_speech_time,
                    recording_start_time, stop_continuous, segment_ready, current_segment,
                    stream_open, consumer_locals, history_vars, session_vars, consumer_frame >>

\* lines 333-335
Finally ==
    /\ pc = "cfinally"
    /\ continuous_mode' = FALSE
    /\ is_recording' = FALSE
    /\ pc' = "done"
    /\ UNCHANGED << buffer, pre_buffer, speech_started, last_speech_time,
                    recording_start_time, stop_continuous, segment_ready, current_segment,
                    stream_open, consumer_locals, history_vars, session_vars, consumer_frame >>

\* lines 338-345, called by another thread during a continuous session
StopContinuous ==
    /\ pc \notin {"idle", "done"}
    /\ continuous_mode
    /\ ~stop_continuous
    /\ stop_continuous' = TRUE
    /\ UNCHANGED << buffer, pre_buffer, is_recording, speech_started, last_speech_time,
                    recording_start_time, continuous_mode, segment_ready, current_segment,
                    stream_open, pc, consumer_locals, history_vars, session_vars,
                    consumer_frame >>

\* the same call, with the history variable at_stop noting what it found
StopContinuousNoted ==
    /\ pc \notin {"idle", "done"}
    /\ continuous_mode
    /\ ~stop_continuous
    /\ stop_continuous' = TRUE
    /\ at_stop' = << Len(buffer), Len(yielded) >>
    /\ UNCHANGED << buffer, pre_buffer, is_recording, speech_started, last_speech_time,
                    recording_start_time, continuous_mode, segment_ready, current_segment,
                    stream_open, pc, consumer_locals, history_vars, sessions, mode, raised,
                    consumer_frame >>

\* lines 347-353
IsContinuousRecording == continuous_mode /\ is_recording

RecordContinuous ==
    \/ StartContinuous
    \/ OpenContinuous
    \/ OpenContinuousFails
    \/ ContinuousLoop
    \/ WaitSegment
    \/ ClearReady
    \/ ReadSegment
    \/ YieldSegment
    \/ Resume
    \/ Flush
    \/ YieldFinal
    \/ CloseContinuous
    \/ Finally

Next ==
    \/ Tick
    \/ Callback
    \/ RecordUntilSilence
    \/ RecordContinuous
    \/ StopContinuous

Spec == Init /\ [][Next]_vars

\* the threads and the device keep running: some enabled step is always taken
LiveSpec == Init /\ [][Next]_vars /\ WF_vars(Next)

\* the same program with the stop_continuous() calls noted in at_stop
NotedNext ==
    \/ Tick
    \/ Callback
    \/ RecordUntilSilence
    \/ RecordContinuous
    \/ StopContinuousNoted

NotedSpec == Init /\ [][NotedNext]_vars

(***************************************************************************)
(* Long continuous sessions: the recorder is used for dictation only and   *)
(* the clock runs long enough for three utterances.                        *)
(***************************************************************************)
LongTick ==
    /\ now < LongTime
    /\ pc \notin {"idle", "done"}
    /\ Waiting \/ Suspended
    /\ Waiting => now < wait_since + PollInterval + Lateness
    /\ cb_pc = "idle"
    /\ ~block_pending
    /\ now' = now + 1
    /\ block_pending' = stream_open
    /\ UNCHANGED << min_speech_samples, other_vars, recorder_vars, stream_open, cb_all, pc,
                    consumer_locals, history_vars, session_vars >>

\* _audio_callback when _continuous_mode is set: line 202 is never reached
ContinuousCallback ==
    \/ \E vad \in VadOutcomes : CbEnter(vad)
    \/ CbSpeechStarted
    \/ CbOnset
    \/ CbAppend
    \/ CbSilAppend
    \/ CbSegment
    \/ CbReady
    \/ CbClear
    \/ CbRestart
    \/ CbPreRoll

LongNext ==
    \/ LongTick
    \/ ContinuousCallback
    \/ RecordContinuous
    \/ StopContinuous

LongSpec == Init /\ [][LongNext]_vars

(***************************************************************************)
(* Reuse of one recorder: the TUI keeps a single AudioRecorder and calls   *)
(* record_continuous() on it again after a session was stopped, and        *)
(* stop_continuous() can be called while no generator is running.          *)
(***************************************************************************)
\* lines 338-345, called while no generator body is running
StopContinuousIdle ==
    /\ pc \in {"idle", "done"}
    /\ ~stop_continuous
    /\ stop_continuous' = TRUE
    /\ UNCHANGED << buffer, pre_buffer, is_recording, speech_started, last_speech_time,
                    recording_start_time, continuous_mode, segment_ready, current_segment,
                    stream_open, pc, consumer_locals, history_vars, session_vars,
                    consumer_frame >>

\* lines 283-294, run again on a recorder whose last session has ended
StartContinuousAgain ==
    /\ pc = "done"
    /\ mode = "continuous"
    /\ sessions <= MaxSessions
    /\ sessions' = sessions + 1
    /\ buffer' = << >>
    /\ pre_buffer' = << >>
    /\ is_recording' = TRUE
    /\ speech_started' = FALSE
    /\ last_speech_time' = now
    /\ recording_start_time' = now
    /\ continuous_mode' = TRUE
    /\ stop_continuous' = FALSE
    /\ segment_ready' = FALSE
    /\ current_segment' = None
    /\ utterance' = << >>
    /\ onset_pre' = << >>
    /\ speech_samples' = 0
    /\ notified' = 0
    /\ result' = None
    /\ outcome' = "none"
    /\ exit_reason' = "none"
    /\ segment' = None
    /\ yielded' = << >>
    /\ mode' = "continuous"
    /\ raised' = "none"
    /\ at_stop' = None
    /\ pc' = "copen"
    /\ UNCHANGED << stream_open, wait_since, elapsed, consumer_frame >>

ReuseNext ==
    \/ Tick
    \/ ContinuousCallback
    \/ RecordContinuous
    \/ StopContinuous
    \/ StopContinuousIdle
    \/ StartContinuousAgain

ReuseSpec == Init /\ [][ReuseNext]_vars

(***************************************************************************)
(* record_until_silence with an exception raised inside the with block     *)
(* (lines 236-251): the with statement closes the stream on the way out,   *)
(* then the clause of lines 253-255 catches what derives from Exception;   *)
(* anything else (KeyboardInterrupt) goes on to the caller.                *)
(***************************************************************************)
ExceptionKinds == {"Exception", "KeyboardInterrupt"}

\* lines 238 and 235: the sleep is interrupted by an exception, the with
\* block is left
SleepRaises ==
    /\ pc = "sleep"
    /\ mode = "single"
    /\ \E kind \in ExceptionKinds : exit_reason' = kind
    /\ pc' = "unwind"
    /\ UNCHANGED << recorder_vars, stream_open, wait_since, elapsed, segment, result,
                    outcome, yielded, history_vars, session_vars, consumer_frame >>

UnwindLeavesStreamOpen ==
    /\ pc = "unwind"
    /\ stream_open' = stream_open
    /\ block_pending' = block_pending
    /\ result' = None
    /\ IF exit_reason = "Exception"
       THEN /\ outcome' = "DeviceError"
            /\ raised' = "none"
       ELSE /\ outcome' = outcome
            /\ raised' = exit_reason
    /\ pc' = "done"
    /\ UNCHANGED << now, min_speech_samples, other_vars, recorder_vars, cb_all, wait_since,
                    elapsed, exit_reason, segment, yielded, history_vars, sessions, mode,
                    at_stop >>

\* lines 229-235 and 253-255: InputStream.__exit__ closes the stream once
\* the running callback has returned, then the exception is caught (return
\* None) or leaves the method
Unwind ==
    /\ pc = "unwind"
    /\ cb_pc = "idle"
    /\ stream_open' = FALSE
    /\ block_pending' = FALSE
    /\ result' = None
    /\ IF exit_reason = "Exception"
       THEN /\ outcome' = "DeviceError"
            /\ raised' = "none"
       ELSE /\ outcome' = outcome
            /\ raised' = exit_reason
    /\ pc' = "done"
    /\ UNCHANGED << now, min_speech_samples, other_vars, recorder_vars, cb_all, wait_since,
                    elapsed, exit_reason, segment, yielded, history_vars, sessions, mode,
                    at_stop >>

ErrorNext ==
    \/ Tick
    \/ Callback
    \/ RecordUntilSilence
    \/ RecordContinuous
    \/ StopContinuous
    \/ SleepRaises
    \/ Unwind

ErrorSpec == Init /\ [][ErrorNext]_vars

(***************************************************************************)
(* src/src/cache.py: AudioChunkCache.  The OrderedDict is a sequence of     *)
(* entries, oldest first.  A chunk is an array with a dtype, a shape and    *)
(* its bytes; compute_fn gives whatever its caller makes it give.           *)
(***************************************************************************)
CacheSizes == 0 .. MaxCacheSize
Chunks == [dtype : {"float32", "int16"}, shape : {"flat", "column"}, bytes : {"x", "y"}]
Values == {"v1", "v2"}

\* lines 111-117: md5 over str(dtype) and tobytes(); the shape is not hashed
ComputeHash(chunk) == << chunk.dtype, chunk.bytes >>

HasKey(key) == \E i \in 1 .. Len(cache) : cache[i].key = key
IndexOf(key) == CHOOSE i \in 1 .. Len(cache) : cache[i].key = key
Without(seq, i) == SubSeq(seq, 1, i - 1) \o SubSeq(seq, i + 1, Len(seq))
\* OrderedDict.move_to_end(key)
MoveToEnd(key) == Append(Without(cache, IndexOf(key)), cache[IndexOf(key)])

\* lines 119-166
GetOrCompute(chunk, value) ==
    /\ hits + misses < MaxCalls
    /\ LET key == ComputeHash(chunk) IN
       IF HasKey(key)
       THEN /\ cache' = MoveToEnd(key)
            /\ hits' = hits + 1
            /\ misses' = misses
            /\ cache_call' = [key |-> key, computed |-> FALSE,
                              returned |-> cache[IndexOf(key)].value]
       ELSE /\ misses' = misses + 1
            /\ hits' = hits
            /\ IF Len(cache) >= max_size
               THEN IF cache = << >>
                    \* next(iter(self._cache)) on an empty dict raises StopIteration
                    THEN /\ cache' = cache
                         /\ cache_call' = [key |-> key, computed |-> TRUE,
                                           returned |-> "StopIteration"]
                    ELSE /\ cache' = Append(Tail(cache), [key |-> key, value |-> value])
                         /\ cache_call' = [key |-> key, computed |-> TRUE, returned |-> value]
               ELSE /\ cache' = Append(cache, [key |-> key, value |-> value])
                    /\ cache_call' = [key |-> key, computed |-> TRUE, returned |-> value]
    /\ UNCHANGED << max_size, recorder_all, trigger_vars, service_vars >>

\* lines 168-177: clear()
CacheClear ==
    /\ cache' = << >>
    /\ hits' = 0
    /\ misses' = 0
    /\ cache_call' = NoCall
    /\ UNCHANGED << max_size, recorder_all, trigger_vars, service_vars >>

CacheNext ==
    \/ \E chunk \in Chunks, value \in Values : GetOrCompute(chunk, value)
    \/ CacheClear

CacheInit ==
    /\ RecorderNew
    /\ TriggerNew("none")
    /\ ServiceNew
    /\ min_speech_samples = 5
    /\ \E size \in CacheSizes : CacheNew(size)

CacheSpec == CacheInit /\ [][CacheNext]_vars

(***************************************************************************)
(* src/src/hotkey.py: one TriggerClient.send_trigger call against a         *)
(* TriggerServer.  What is written on the connection is the text followed   *)
(* by a newline; strip() takes the newline off again.                       *)
(***************************************************************************)
ClientMessages == {"TRIGGER", "TRIGGER_COPY", "TRIGGER_PASTE", "TRIGGER_PASTE_TERMINAL", "HELLO"}
Handlers == {"none", "handler"}
\* how an on_trigger call can end: it returns, raises an Exception, or is
\* cancelled (CancelledError is not an Exception)
HandlerOutcomes == {"returned", "raised", "cancelled"}

\* f"{text}\n".encode()
Line(text) == << text, "\n" >>
\* data.decode("utf-8").strip()
Strip(data) == IF data = NoData THEN "" ELSE data[1]

\* lines 104-114
ParseTrigger(message) ==
    IF message = "TRIGGER_COPY" THEN "COPY"
    ELSE IF message = "TRIGGER_PASTE" THEN "PASTE"
    ELSE IF message = "TRIGGER_PASTE_TERMINAL" THEN "PASTE_TERMINAL"
    ELSE "UNKNOWN"

trigger_frame == << recorder_all, cache_vars, service_vars >>

\* lines 144-171: start()
ServerStart ==
    /\ ~is_running
    /\ client_pc = "idle"
    /\ is_running' = TRUE
    /\ UNCHANGED << on_trigger, server_pc, to_server, to_client, trigger_type, handler_outcome,
                    client_pc, sent, success, failure, trigger_frame >>

\* lines 260-263 and 281-292: open_unix_connection
Connect(text) ==
    /\ client_pc = "idle"
    /\ sent' = text
    /\ IF is_running
       THEN /\ client_pc' = "connected"
            /\ success' = success
            /\ failure' = failure
       ELSE /\ client_pc' = "done"
            /\ success' = "False"
            /\ failure' = "not running"
    /\ UNCHANGED << is_running, on_trigger, server_pc, to_server, to_client, trigger_type,
                    handler_outcome, trigger_frame >>

\* lines 265-267
SendMessage ==
    /\ client_pc = "connected"
    /\ to_server' = Line(sent)
    /\ client_pc' = "waiting"
    /\ UNCHANGED << is_running, on_trigger, server_pc, to_client, trigger_type, handler_outcome,
                    sent, success, failure, trigger_frame >>

ReadResponseAcceptsAnyReply ==
    /\ client_pc = "waiting"
    /\ to_client # NoData
    /\ to_client' = NoData
    /\ success' = IF to_client # EndOfStream THEN "True" ELSE "False"
    /\ failure' = IF success' = "True" THEN failure ELSE "reply"
    /\ client_pc' = "done"
    /\ UNCHANGED << is_running, on_trigger, server_pc, to_server, trigger_type, handler_outcome,
                    sent, trigger_frame >>

\* lines 269-279: the response arrives in time
ReadResponse ==
    /\ client_pc = "waiting"
    /\ to_client # NoData
    /\ to_client' = NoData
    /\ success' = IF Strip(to_client) = "OK" THEN "True" ELSE "False"
    /\ failure' = IF success' = "True" THEN failure ELSE "reply"
    /\ client_pc' = "done"
    /\ UNCHANGED << is_running, on_trigger, server_pc, to_server, trigger_type, handler_outcome,
                    sent, trigger_frame >>

\* lines 270 and 286-288: wait_for gives up
ResponseTimeout ==
    /\ client_pc = "waiting"
    /\ success' = "False"
    /\ failure' = "timeout"
    /\ client_pc' = "done"
    /\ UNCHANGED << is_running, on_trigger, server_pc, to_server, to_client, trigger_type,
                    handler_outcome, sent, trigger_frame >>

\* lines 97-117 and 125-126: read the message, parse it, call the handler
\* or answer that there is none
HandleClient ==
    /\ server_pc = "idle"
    /\ to_server # NoData
    /\ to_server' = NoData
    /\ trigger_type' = ParseTrigger(Strip(to_server))
    /\ IF on_trigger = "none"
       THEN /\ to_client' = Line("NO_HANDLER")
            /\ server_pc' = "closing"
       ELSE /\ to_client' = to_client
            /\ server_pc' = "handling"
    /\ UNCHANGED << is_running, on_trigger, handler_outcome, client_pc, sent, success, failure,
                    trigger_frame >>

\* lines 118-128: the awaited on_trigger call ends
HandlerEnds(how) ==
    /\ server_pc = "handling"
    /\ handler_outcome' = how
    /\ to_client' = (IF client_pc = "done" THEN to_client
                     ELSE IF how = "returned" THEN Line("OK")
                     ELSE IF how = "raised" THEN Line("ERROR: e")
                     ELSE to_client)
    /\ server_pc' = "closing"
    /\ UNCHANGED << is_running, on_trigger, to_server, trigger_type, client_pc, sent, success,
                    failure, trigger_frame >>

\* lines 133-142: the connection is closed; a client that got no reply
\* reads the end of the stream
CloseConnection ==
    /\ server_pc = "closing"
    /\ to_client' = (IF to_client = NoData /\ client_pc # "done" THEN EndOfStream ELSE to_client)
    /\ server_pc' = "closed"
    /\ UNCHANGED << is_running, on_trigger, to_server, trigger_type, handler_outcome, client_pc,
                    sent, success, failure, trigger_frame >>

TriggerNext ==
    \/ ServerStart
    \/ \E text \in ClientMessages : Connect(text)
    \/ SendMessage
    \/ ReadResponse
    \/ ResponseTimeout
    \/ HandleClient
    \/ \E how \in HandlerOutcomes : HandlerEnds(how)
    \/ CloseConnection

TriggerInit ==
    /\ RecorderNew
    /\ min_speech_samples = 5
    /\ CacheNew(DefaultMaxSize)
    /\ ServiceNew
    /\ \E handler \in Handlers : TriggerNew(handler)

TriggerSpec == TriggerInit /\ [][TriggerNext]_vars

(***************************************************************************)
(* Who calls the recorder.  In daemon mode (src/src/main.py) the asyncio    *)
(* server runs one _handle_client task per connection, and each awaits      *)
(* process_request, which runs record_until_silence in a thread.  In the    *)
(* TUI (src/src/tui.py) the actions start thread workers.  Both use the     *)
(* one AudioRecorder their object built.                                    *)
(***************************************************************************)
service_frame == << recorder_all, cache_vars, trigger_vars >>

\* main.py: trigger_callback awaits process_request, whose task reaches
\* asyncio.to_thread(self.audio_recorder.record_until_silence)
ProcessRequest(i) ==
    /\ requests[i] = "none"
    /\ requests' = [requests EXCEPT ![i] = "recording"]
    /\ UNCHANGED << workers, app_is_recording, app_is_continuous, stop_requested, service_frame >>

\* main.py: record_until_silence has returned and the rest of the request
\* follows
RequestRecorded(i) ==
    /\ requests[i] = "recording"
    /\ requests' = [requests EXCEPT ![i] = "done"]
    /\ UNCHANGED << workers, app_is_recording, app_is_continuous, stop_requested, service_frame >>

\* tui.py: action_record starts the worker _record_single
ActionRecord(i) ==
    /\ workers[i] = "none"
    /\ ~app_is_recording
    /\ workers' = [workers EXCEPT ![i] = "single start"]
    /\ UNCHANGED << requests, app_is_recording, app_is_continuous, stop_requested, service_frame >>

\* tui.py: action_continuous starts the worker _record_continuous
ActionContinuous(i) ==
    /\ workers[i] = "none"
    /\ ~app_is_recording
    /\ workers' = [workers EXCEPT ![i] = "continuous start"]
    /\ UNCHANGED << requests, app_is_recording, app_is_continuous, stop_requested, service_frame >>

\* tui.py: the worker sets the flags and calls record_until_silence
RecordSingleBegins(i) ==
    /\ workers[i] = "single start"
    /\ app_is_recording' = TRUE
    /\ stop_requested' = FALSE
    /\ workers' = [workers EXCEPT ![i] = "single"]
    /\ UNCHANGED << requests, app_is_continuous, service_frame >>

\* tui.py: the worker sets the flags and iterates record_continuous
RecordContinuousBegins(i) ==
    /\ workers[i] = "continuous start"
    /\ app_is_recording' = TRUE
    /\ app_is_continuous' = TRUE
    /\ stop_requested' = FALSE
    /\ workers' = [workers EXCEPT ![i] = "continuous"]
    /\ UNCHANGED << requests, service_frame >>

\* tui.py: action_stop
ActionStop ==
    /\ stop_requested' = TRUE
    /\ app_is_recording' = FALSE
    /\ UNCHANGED << requests, workers, app_is_continuous, service_frame >>

\* tui.py: the recording is over and the worker's finally clause runs
WorkerEnds(i) ==
    /\ workers[i] \in {"single", "continuous"}
    /\ app_is_recording' = FALSE
    /\ app_is_continuous' = (IF workers[i] = "continuous" THEN FALSE ELSE app_is_continuous)
    /\ workers' = [workers EXCEPT ![i] = "done"]
    /\ UNCHANGED << requests, stop_requested, service_frame >>

ServiceNext ==
    \/ \E i \in 1 .. MaxRequests : ProcessRequest(i)
    \/ \E i \in 1 .. MaxRequests : RequestRecorded(i)
    \/ \E i \in 1 .. MaxWorkers : ActionRecord(i)
    \/ \E i \in 1 .. MaxWorkers : ActionContinuous(i)
    \/ \E i \in 1 .. MaxWorkers : RecordSingleBegins(i)
    \/ \E i \in 1 .. MaxWorkers : RecordContinuousBegins(i)
    \/ ActionStop
    \/ \E i \in 1 .. MaxWorkers : WorkerEnds(i)

ServiceInit ==
    /\ RecorderNew
    /\ min_speech_samples = 5
    /\ CacheNew(DefaultMaxSize)
    /\ TriggerNew("none")
    /\ ServiceNew

ServiceSpec == ServiceInit /\ [][ServiceNext]_vars

\* the threads that are inside a record_* call of the daemon's recorder,
\* and of the TUI's
DaemonSessions == Cardinality({i \in 1 .. MaxRequests : requests[i] = "recording"})
AppSessions == Cardinality({i \in 1 .. MaxWorkers : workers[i] \in {"single", "continuous"}})

(***************************************************************************)
(* Properties                                                              *)
(***************************************************************************)
LastN(seq, n) == IF Len(seq) <= n THEN seq ELSE SubSeq(seq, Len(seq) - n + 1, Len(seq))

\* C1: while the recorder waits for speech (speech_started is False) the main
\* buffer is empty, and the callback of a silence block taken in that state
\* appends the block to the pre-buffer (keeping its newest PreBufferSamples
\* samples) and leaves the main buffer alone.
C1_WaitingKeepsMainEmpty ==
    /\ [](~speech_started => buffer = << >>)
    /\ [][(cb_pc = "preroll" /\ cb_pc' = "idle")
            => /\ buffer' = buffer
               /\ pre_buffer' = LastN(pre_buffer \o cb_chunk, PreBufferSamples)]_vars

\* a continuous session that has yielded a segment waits again, pre-roll refilled
C1_Witness ==
    /\ continuous_mode
    /\ stream_open
    /\ ~speech_started
    /\ Len(yielded) > 0
    /\ Len(pre_buffer) = PreBufferSamples
    /\ buffer = << >>

\* C2: at speech onset the whole pre-buffer moves into the main buffer in
\* order and the pre-buffer is cleared: the main buffer right after the move
\* is exactly the pre-buffer right before it (same samples, same length).
C2_OnsetMovesPreRoll ==
    [][(cb_pc = "onset" /\ cb_pc' = "append")
         => /\ buffer' = pre_buffer
            /\ Len(buffer') = Len(pre_buffer)
            /\ pre_buffer' = << >>]_vars

\* the move has happened with a full pre-buffer
C2_Witness ==
    /\ cb_pc = "append"
    /\ speech_started
    /\ Len(onset_pre) = PreBufferSamples
    /\ buffer = onset_pre
    /\ pre_buffer = << >>

\* C4: a block is speech exactly when its probability is strictly above the
\* threshold; while a block whose probability equals the threshold is being
\* processed no utterance starts and last_speech_time keeps its value (the
\* only assignment is the reset of line 199 that ends a continuous segment).
C4_ThresholdStrict ==
    /\ [][(cb_pc = "idle" /\ cb_pc' # "idle")
            => /\ (cb_pc' \in {"started", "append"}) <=> (speech_prob' > Threshold)
               /\ (cb_pc' \in {"preroll", "sil_append"}) <=> (speech_prob' <= Threshold)]_vars
    /\ [][(speech_prob = Threshold \/ speech_prob' = Threshold)
            => /\ speech_started' => speech_started
               /\ last_speech_time' = last_speech_time \/ cb_pc = "restart"]_vars

\* a block exactly at the threshold arrived while speaking and went the silence way
C4_Witness ==
    /\ speech_prob = Threshold
    /\ cb_pc = "sil_append"
    /\ speech_started
    /\ last_speech_time < cb_time

\* C5: while speaking, the callback of a silence block stamped t completes the
\* segment iff t - last_speech_time >= silence_duration; a speech block sets
\* last_speech_time to its time and completes nothing; in single-shot mode
\* completing means is_recording becomes False, and nothing else clears it
\* while the stream is open.
C5_SilenceCutoffInclusive ==
    /\ [][(cb_pc = "sil_append" /\ cb_pc' # "sil_append")
            => /\ (cb_pc' \in {"stop", "segment"})
                     <=> (cb_time - last_speech_time >= SilenceDuration)
               /\ cb_pc' = "stop" <=> (cb_pc' # "idle" /\ ~continuous_mode)]_vars
    /\ [][(cb_pc = "idle" /\ cb_pc' \in {"started", "append"})
            => last_speech_time' = now]_vars
    /\ [][(cb_pc = "append" /\ cb_pc' # "append")
            => /\ cb_pc' = "idle"
               /\ is_recording' = is_recording
               /\ current_segment' = current_segment
               /\ segment_ready' = segment_ready]_vars
    /\ [][(cb_pc = "stop" /\ cb_pc' # "stop") => ~is_recording']_vars
    /\ [][(stream_open /\ is_recording /\ ~is_recording') => cb_pc = "stop"]_vars

\* the cutoff fired on equality in a single-shot session
C5_Witness ==
    /\ ~continuous_mode
    /\ stream_open
    /\ cb_pc = "idle"
    /\ ~is_recording
    /\ cb_time - last_speech_time = SilenceDuration

Consecutive(seq) == \A i \in 1 .. Len(seq) - 1 : seq[i + 1] = seq[i] + 1

IsPrefix(a, b) == Len(a) <= Len(b) /\ SubSeq(b, 1, Len(a)) = a

\* C3: while speaking every block, speech or silence, is appended to the main
\* buffer, so when the silence cutoff fires the buffer holds the pre-roll of
\* the onset, then every block delivered since, up to and including the block
\* that reached the cutoff, in arrival order with nothing missing.
C3_SegmentIsWholeUtterance ==
    /\ [][(cb_pc \in {"append", "sil_append"} /\ cb_pc' # cb_pc)
            => LastN(buffer', BlockSize) = cb_chunk]_vars
    /\ [][(cb_pc = "sil_append" /\ cb_pc' \in {"stop", "segment"})
            => /\ buffer' = utterance'
               /\ IsPrefix(onset_pre, buffer')
               /\ Consecutive(buffer')
               /\ buffer'[Len(buffer')] = cb_time * BlockSize]_vars

\* C6: every array returned by record_until_silence and every segment yielded
\* by record_continuous, the final flush included, holds at least
\* min_speech_samples samples.
C6_DeliveredAtLeastMinimum ==
    /\ result # None => Len(result) >= min_speech_samples
    /\ \A i \in 1 .. Len(yielded) : Len(yielded[i]) >= min_speech_samples

SingleShot == mode = "single" /\ pc \in {"open", "loop", "sleep", "check", "close", "final"}

\* C7: once the silence cutoff has fired in a single-shot session whose main
\* buffer holds at least min_speech_samples, record_until_silence eventually
\* returns audio of at least min_speech_samples samples.
C7_EnoughSpeechIsDelivered ==
    (SingleShot /\ stream_open /\ ~is_recording /\ Len(buffer) >= min_speech_samples)
        ~> (pc = "done" /\ result # None /\ Len(result) >= min_speech_samples)

\* the cutoff ended the session and the audio was returned
C7_Witness ==
    /\ pc = "done"
    /\ mode = "single"
    /\ outcome = "SegmentComplete"
    /\ exit_reason = "silence"
    /\ result = buffer
    /\ Len(result) >= min_speech_samples

\* C8: when the blocks classified as speech in a single-shot recording amount
\* to less than min_speech_samples and the silence cutoff ends the recording,
\* the outcome is TooShort and no audio is returned.
C8_ShortSpeechIsTooShort ==
    (pc = "done" /\ mode = "single" /\ exit_reason = "silence" /\ speech_samples < min_speech_samples)
        => (outcome = "TooShort" /\ result = None)

\* C9: a single-shot session in which no speech started ends through the
\* no-speech return, with no audio, at a poll whose elapsed time is beyond the
\* grace period and short of max_recording_duration, and it is over within one
\* poll of the grace period; a continuous session leaves its loop only after
\* stop_continuous.
C9_NoSpeechTimeout ==
    /\ (pc = "done" /\ mode = "single" /\ ~speech_started /\ outcome # "DeviceError")
          => /\ outcome = "NoSpeechTimeout"
             /\ result = None
             /\ elapsed > NoSpeechGrace
             /\ elapsed < MaxRecordingDuration
    /\ (SingleShot /\ stream_open /\ ~speech_started)
          => now - recording_start_time <= NoSpeechGrace + PollInterval + Lateness
    /\ (mode = "continuous" /\ pc \in {"flush", "fsnap", "fyielded", "cexit"})
          => stop_continuous

\* the no-speech return was taken right after the grace period
C9_Witness ==
    /\ pc = "done"
    /\ outcome = "NoSpeechTimeout"
    /\ ~speech_started
    /\ elapsed = NoSpeechGrace + 1
    /\ ~stream_open

\* C10: a poll that finds elapsed >= max_recording_duration leaves the loop
\* whatever the callback is doing, so the stream is closed within one poll of
\* the limit; the buffer is then returned if it holds at least
\* min_speech_samples, and nothing is returned otherwise.
C10_MaxDurationStops ==
    /\ [][(pc = "check" /\ pc' # "check" /\ elapsed >= MaxRecordingDuration)
            => (pc' = "close" /\ exit_reason' = "max")]_vars
    /\ [](SingleShot /\ stream_open
            => now - recording_start_time < MaxRecordingDuration + PollInterval + Lateness)
    /\ []((pc = "done" /\ mode = "single" /\ exit_reason = "max")
            => result = (IF Len(buffer) >= min_speech_samples THEN buffer ELSE None))

\* stopped at the limit while speech was still going on, and the audio came back
C10_Witness ==
    /\ pc = "done"
    /\ mode = "single"
    /\ exit_reason = "max"
    /\ is_recording
    /\ last_speech_time = now
    /\ outcome = "Truncated"
    /\ result = buffer
    /\ Len(result) >= min_speech_samples

\* C11: when opening the input stream fails, record_until_silence ends at
\* once: the failure step goes from the open attempt straight to the return
\* with no audio, and for as long as the failure outcome stands the method has
\* returned, no stream is open, no time has passed since the session started
\* (no poll was slept) and nothing was recorded.
C11_OpenFailureEndsAtOnce ==
    /\ [][(mode = "single" /\ outcome # "DeviceError" /\ outcome' = "DeviceError")
            => /\ pc = "open"
               /\ pc' = "done"
               /\ result' = None
               /\ ~stream_open']_vars
    /\ []((mode = "single" /\ outcome = "DeviceError")
            => /\ pc = "done"
               /\ result = None
               /\ ~stream_open
               /\ now = recording_start_time
               /\ wait_since <= recording_start_time
               /\ buffer = << >>
               /\ pre_buffer = << >>)

\* the open attempt failed and the method has returned nothing
C11_Witness ==
    /\ mode = "single"
    /\ pc = "done"
    /\ outcome = "DeviceError"
    /\ result = None
    /\ ~stream_open
    /\ is_recording

\* C12: a continuous session that a device failure aborted ends with an error
\* raised to the consumer of the segment sequence, which a session ended by
\* stop_continuous() does not.
C12_DeviceFailureIsSurfaced ==
    (mode = "continuous" /\ pc = "done")
        => (raised # "none" <=> outcome = "DeviceError")

\* what the value returned by record_until_silence tells its caller
ResultTag == IF result = None THEN "None" ELSE "Audio"

C14_CutoffResetsInPlace ==
    /\ [][(cb_pc = "segment" /\ cb_pc' # "segment")
            => IF Len(buffer) >= min_speech_samples
               THEN current_segment' = buffer /\ cb_pc' = "ready"
               ELSE current_segment' = current_segment /\ cb_pc' = "reset"]_vars
    /\ [][(cb_pc = "ready" /\ cb_pc' # "ready")
            => (segment_ready' /\ cb_pc' = "reset")]_vars
    /\ [][(cb_pc = "reset" /\ cb_pc' # "reset")
            => (buffer' = << >> /\ cb_pc' = "restart")]_vars
    /\ [][(cb_pc = "restart" /\ cb_pc' # "restart")
            => /\ cb_pc' = "idle"
               /\ buffer' = << >>
               /\ ~speech_started'
               /\ last_speech_time' = cb_time
               /\ last_speech_time' = now
               /\ is_recording'
               /\ stream_open']_vars
    /\ [](cb_pc \in {"segment", "ready", "reset", "restart"}
            => (continuous_mode /\ is_recording /\ stream_open))
    /\ []((continuous_mode /\ stream_open) => is_recording)

\* after a segment was handed over, the same stream has started the next one
C14_Witness ==
    /\ continuous_mode
    /\ stream_open
    /\ is_recording
    /\ Len(yielded) = 1
    /\ speech_started
    /\ buffer # << >>
    /\ buffer[1] > yielded[1][Len(yielded[1])]

\* C15: when stop_continuous() is called while the main buffer holds
\* k >= min_speech_samples samples, the generator ends having yielded exactly
\* one more segment than it had at the call, the final one, and that segment
\* holds the k samples (with the blocks that arrived before the polling loop
\* saw the stop, which the final flush includes).
C15_StopYieldsOneFinalSegment ==
    (mode = "continuous" /\ pc = "done" /\ at_stop # None /\ at_stop[1] >= min_speech_samples)
        => /\ Len(yielded) = at_stop[2] + 1
           /\ Len(yielded[Len(yielded)]) >= at_stop[1]

\* C16: no completed segment is left behind by a cancellation: when the
\* generator has ended, the handoff slot does not hold a segment that the
\* callback signalled ready and the consumer never picked up.
C16_StopDropsNoReadySegment ==
    (mode = "continuous" /\ pc = "done" /\ stop_continuous)
        => ~(segment_ready /\ current_segment # None)

\* C17: a consumer that has observed the ready signal (the wait of line 312
\* returned True) and is about to read the handoff slot finds a complete
\* segment there: not None, and at least min_speech_samples long.
C17_ReadyMeansComplete ==
    pc = "cread" => (current_segment # None /\ Len(current_segment) >= min_speech_samples)

\* the model's clock stops at MaxTime: a wait that began less than a poll
\* interval before that cannot be seen to time out
WaitCanTimeOut == pc = "cwait" => wait_since + PollInterval <= MaxTime

\* C18: once stop_continuous() has been called in a continuous session, the
\* next test of the loop condition leaves the polling loop, and (the consumer
\* pulling on) the generator eventually finishes; when it has finished,
\* _continuous_mode and is_recording are both False and
\* is_continuous_recording() is False, while it is True inside the loop.
C18_StopEndsSession ==
    /\ [][(pc = "cloop" /\ stop_continuous /\ pc' # pc) => pc' = "flush"]_vars
    /\ (mode = "continuous" /\ stop_continuous /\ pc # "done" /\ WaitCanTimeOut)
          ~> (pc = "done" /\ ~continuous_mode /\ ~is_recording /\ ~IsContinuousRecording)
    /\ []((mode = "continuous" /\ pc = "done") => ~IsContinuousRecording)
    /\ []((mode = "continuous" /\ pc \in {"cloop", "cwait", "cclear", "cread", "cnull", "yielded"})
            => IsContinuousRecording)

\* stopped in the middle of the second utterance: one segment from the loop,
\* one from the final flush, and the flags are down
C18_Witness ==
    /\ mode = "continuous"
    /\ pc = "done"
    /\ stop_continuous
    /\ ~continuous_mode
    /\ ~is_recording
    /\ ~stream_open
    /\ Len(yielded) = 2

\* C19: the stop flag, once set, stays set, and a recorder whose generator has
\* ended after stop_continuous() starts no further session.
C19_StopIsFinal ==
    /\ [][stop_continuous => stop_continuous']_vars
    /\ [][(pc = "done" /\ mode = "continuous" /\ stop_continuous) => pc' = "done"]_vars

\* C19 as amended: the recorder is restartable. Only the start of
\* record_continuous() clears the stop flag, and it always does, together
\* with the ready signal, the handoff slot and the buffers, so the same
\* recorder runs a new session after a stopped one; inside a session the
\* flag, once set, stays set until the generator has ended, and a
\* stop_continuous() call made while no generator is running is undone by the
\* next start.
C19_StartClearsStop ==
    /\ [][(stop_continuous /\ ~stop_continuous')
            => (pc \in {"idle", "done"} /\ pc' = "copen")]_vars
    /\ [][(pc \in {"idle", "done"} /\ pc' = "copen")
            => /\ ~stop_continuous'
               /\ ~segment_ready'
               /\ current_segment' = None
               /\ buffer' = << >>
               /\ pre_buffer' = << >>
               /\ yielded' = << >>
               /\ IsContinuousRecording']_vars
    /\ [][(pc \notin {"idle", "done"} /\ stop_continuous) => stop_continuous']_vars

\* the second session on the same recorder, started after the first was
\* stopped, has delivered a segment
C19_Witness ==
    /\ sessions = 2
    /\ mode = "continuous"
    /\ stream_open
    /\ ~stop_continuous
    /\ Len(yielded) = 1
    /\ pc = "yielded"

\* C20: on_speech_start fires exactly once per accumulator lifetime (once per
\* single-shot session with speech, once per segment in continuous mode): it
\* is called only by the block that finds speech while the recorder is still
\* waiting, never by a later speech block of the same utterance, the count
\* since the last reset is 1 exactly while the recorder is Speaking, and
\* every audio the recorder produces (a segment posted at a cutoff, the
\* final segment flushed at stop, a single-shot result) was announced
\* exactly once.
C20_NotifiedOncePerLifetime ==
    /\ [](notified \in {0, 1})
    /\ [](cb_pc \notin {"onset", "restart"} => (notified = 1 <=> speech_started))
    /\ [][notified' # notified
            => \/ /\ notified' = 1
                  /\ notified = 0
                  /\ cb_pc = "onset"
                  /\ IsSpeech(speech_prob)
                  /\ speech_samples = 0
               \/ notified' = 0]_vars
    /\ [][(current_segment' # current_segment /\ current_segment' # None)
            => notified = 1]_vars
    /\ [][(pc = "flush" /\ Len(yielded') > Len(yielded)) => notified = 1]_vars
    /\ []((mode = "single" /\ pc = "done" /\ result # None) => notified = 1)

\* the second segment of a continuous session has been announced once and a
\* later speech block of the same utterance has been stored without a second
\* announcement
C20_Witness ==
    /\ mode = "continuous"
    /\ Len(yielded) = 1
    /\ speech_started
    /\ notified = 1
    /\ cb_pc = "idle"
    /\ speech_samples > BlockSize

\* the last Len(items) elements of buf are items
EndsWith(buf, items) ==
    /\ Len(buf) >= Len(items)
    /\ SubSeq(buf, Len(buf) - Len(items) + 1, Len(buf)) = items

\* C21: a classifier failure on one block counts as probability 0.0 for that
\* block only: the block takes the silence path (pre-roll while waiting,
\* main buffer and the silence gap while speaking), it does not refresh
\* last_speech_time, and the stream and the session go on.
C21_VadFailureIsSilence ==
    /\ [][(cb_pc = "idle" /\ vad_failed')
            => /\ speech_prob' = 0
               /\ last_speech_time' = last_speech_time
               /\ cb_pc' = (IF speech_started THEN "sil_append" ELSE "preroll")]_vars
    /\ [][(vad_failed /\ cb_pc = "preroll" /\ cb_pc' # cb_pc)
            => /\ pre_buffer' = PreBufferExtend(cb_chunk)
               /\ buffer' = buffer
               /\ cb_pc' = "idle"]_vars
    /\ [][(vad_failed /\ cb_pc = "sil_append" /\ cb_pc' # cb_pc)
            => /\ buffer' = BufferExtend(cb_chunk)
               /\ pre_buffer' = pre_buffer
               /\ (cb_pc' # "idle" <=> cb_time - last_speech_time >= SilenceDuration)]_vars
    /\ [][(vad_failed /\ cb_pc # "restart") => last_speech_time' = last_speech_time]_vars
    /\ [][vad_failed => (stream_open' /\ raised' = "none" /\ pc' # "done")]_vars
    /\ [](vad_failed => (stream_open /\ cb_pc # "idle" /\ ~IsSpeech(speech_prob)))
    /\ [](cb_pc = "idle" => ~vad_failed)

\* a block on which the classifier raised has been appended to the main
\* buffer while speaking and has completed the silence gap of a segment
C21_Witness ==
    /\ vad_failed
    /\ mode = "continuous"
    /\ cb_pc = "segment"
    /\ speech_started
    /\ EndsWith(buffer, cb_chunk)
    /\ cb_time - last_speech_time >= SilenceDuration

\* C22: both sample buffers are bounded ring buffers: the pre-buffer never
\* holds more than PreBufferSamples samples and the main buffer never more
\* than MaxSamples, and after more samples were pushed than a buffer holds
\* its contents are exactly the last samples pushed, as many as its capacity,
\* in order.
C22_BuffersAreRings ==
    /\ [](Len(pre_buffer) <= PreBufferSamples)
    /\ [](Len(buffer) <= MaxSamples)
    /\ [](buffer = LastN(utterance, MaxSamples))
    /\ [][(cb_pc = "preroll" /\ cb_pc' = "idle"
              /\ Len(pre_buffer) + Len(cb_chunk) > PreBufferSamples)
            => /\ Len(pre_buffer') = PreBufferSamples
               /\ pre_buffer' = LastN(pre_buffer \o cb_chunk, PreBufferSamples)
               /\ EndsWith(pre_buffer', cb_chunk)]_vars
    /\ [][(cb_pc \in {"append", "sil_append"} /\ cb_pc' # cb_pc
              /\ Len(buffer) + Len(cb_chunk) > MaxSamples)
            => /\ Len(buffer') = MaxSamples
               /\ buffer' = LastN(buffer \o cb_chunk, MaxSamples)
               /\ EndsWith(buffer', cb_chunk)]_vars

\* more samples were pushed into the main buffer than it holds, and the full
\* pre-buffer has taken one more block
C22_Witness ==
    /\ Len(utterance) > MaxSamples
    /\ Len(buffer) = MaxSamples
    /\ buffer # utterance
    /\ Len(onset_pre) = PreBufferSamples

\* C23: whenever record_until_silence is over, by whatever exit (silence
\* cutoff, max duration, no-speech timeout, too-short result, a failed open
\* or an exception raised inside the with block), the stream it opened is
\* closed, no callback is running or due, and from then on the recorder's
\* buffers and flags stay as they are.
C23_StreamClosedOnEveryExit ==
    /\ []((mode = "single" /\ pc = "done")
            => (~stream_open /\ cb_pc = "idle" /\ ~block_pending))
    /\ [][(mode = "single" /\ pc = "done" /\ pc' = "done")
            => UNCHANGED << recorder_vars, cb_all, stream_open >>]_vars
    /\ [][(mode = "single" /\ stream_open /\ ~stream_open')
            => pc \in {"close", "unwind"}]_vars

\* an exception interrupted a session that had already recorded speech, and
\* the method is over
C23_Witness ==
    /\ mode = "single"
    /\ pc = "done"
    /\ exit_reason \in ExceptionKinds
    /\ speech_started
    /\ buffer # << >>
    /\ now > recording_start_time

\* the samples of the utterance delivered from its onset block on
SinceOnset == SubSeq(utterance, Len(onset_pre) + 1, Len(utterance))

\* C24: in continuous mode the max-recording-duration limit applies to each
\* segment: an utterance that has lasted max_recording_duration (one late
\* poll allowed) has been finalized, so it never outgrows the limit, and
\* every segment handed to the consumer holds every sample delivered since
\* the onset of its utterance.
C24_SegmentTimerPerSegment ==
    /\ [](mode = "continuous"
            => Len(SinceOnset) <= BlockSize * (MaxRecordingDuration + PollInterval + Lateness))
    /\ [][(mode = "continuous" /\ cb_pc = "segment" /\ cb_pc' = "ready"
              /\ current_segment' # None)
            => EndsWith(current_segment', SinceOnset)]_vars

Keys(entries) == {entries[i].key : i \in 1 .. Len(entries)}

\* C25: AudioChunkCache is a bounded LRU cache: it never holds more than
\* max_size entries; a hit returns the stored value without calling
\* compute_fn and makes its key the most recently used, keeping the other
\* entries in their order; a miss calls compute_fn, returns its value and
\* stores it as the most recently used entry, after evicting exactly the
\* least recently used entry when the cache is full.
C25_BoundedLru ==
    /\ [](Len(cache) <= max_size)
    /\ [][hits' = hits + 1
            => /\ cache_call'.key \in Keys(cache)
               /\ ~cache_call'.computed
               /\ cache_call'.returned = cache[IndexOf(cache_call'.key)].value
               /\ cache'[Len(cache')] = cache[IndexOf(cache_call'.key)]
               /\ SubSeq(cache', 1, Len(cache') - 1) = Without(cache, IndexOf(cache_call'.key))]_vars
    /\ [][misses' = misses + 1
            => /\ cache_call'.key \notin Keys(cache)
               /\ cache_call'.computed
               /\ cache_call'.returned \in Values
               /\ cache'[Len(cache')] = [key |-> cache_call'.key, value |-> cache_call'.returned]
               /\ SubSeq(cache', 1, Len(cache') - 1)
                     = (IF Len(cache) >= max_size THEN Tail(cache) ELSE cache)]_vars

\* C26: send_trigger returns True exactly when the reply it read is OK, and
\* that reply exists exactly when the server called its on_trigger handler
\* with the trigger type parsed from the message and the call came back
\* without raising; it returns False when the handler raised, when there is
\* no handler, when the server is not running and when no reply came in
\* time.
C26_TrueIffHandlerSucceeded ==
    /\ [](success = "True"
            => /\ on_trigger = "handler"
               /\ handler_outcome = "returned"
               /\ trigger_type = ParseTrigger(sent))
    /\ []((client_pc = "done" /\ handler_outcome \in {"raised", "cancelled"}) => success = "False")
    /\ []((client_pc = "done" /\ on_trigger = "none") => success = "False")
    /\ []((client_pc = "done" /\ failure \in {"not running", "timeout"}) => success = "False")
    /\ [](client_pc = "done" => success \in {"True", "False"})
    /\ [][(client_pc = "waiting" /\ client_pc' = "done" /\ to_client = Line("OK")
              /\ failure' # "timeout")
            => success' = "True"]_vars
    /\ [](success = "False"
            => \/ failure \in {"not running", "timeout"}
               \/ on_trigger = "none"
               \/ handler_outcome \in {"raised", "cancelled"})

\* the handler was called with the parsed type, returned, and the client
\* read the reply in time
C26_Witness ==
    /\ client_pc = "done"
    /\ success = "True"
    /\ sent = "TRIGGER_PASTE_TERMINAL"
    /\ trigger_type = "PASTE_TERMINAL"
    /\ handler_outcome = "returned"
    /\ server_pc = "closed"

\* C27: in continuous mode every segment the callback completes reaches the
\* consumer exactly once: the callback writes a segment only into an empty
\* handoff slot (no completed segment is overwritten, even when it completes
\* while the consumer is still busy with the one before), and the slot is
\* emptied only by the yield of the segment it held; both as long as nobody
\* has asked the session to stop.
C27_HandoffLosesNothing ==
    /\ [][(~stop_continuous /\ cb_pc = "segment" /\ current_segment' # current_segment)
            => current_segment = None]_vars
    /\ [][(~stop_continuous /\ pc \notin {"idle", "done"}
              /\ current_segment # None /\ current_segment' = None)
            => yielded' = Append(yielded, current_segment)]_vars

\* C28: in single-shot mode the silence cutoff is terminal: once the
\* callback has set is_recording to False, the callbacks of the still open
\* stream leave the main buffer as it is, so that what
\* record_until_silence returns is the buffer of the cutoff instant.
C28_CutoffIsTerminal ==
    [][(mode = "single" /\ stream_open /\ ~is_recording) => buffer' = buffer]_vars

\* C29: at most one recording session is active on an AudioRecorder at any
\* time: the daemon never has two requests inside record_until_silence, and
\* the TUI never has two workers inside record_until_silence or
\* record_continuous, also when a trigger arrives during a recording or a
\* record action follows a Stop while the previous worker is still running.
C29_OneSessionPerRecorder ==
    DaemonSessions <= 1 /\ AppSessions <= 1

\* every sample yielded so far, in the order the consumer received it
RECURSIVE YieldedSamples(_)
YieldedSamples(segments) ==
    IF segments = << >> THEN << >>
    ELSE Head(segments) \o YieldedSamples(Tail(segments))

\* C30: in continuous mode no captured sample appears in more than one
\* yielded segment, the final flush included, and the samples within each
\* segment and across successive segments are in the order in which the
\* device delivered them (samples are numbered by arrival, so the yielded
\* samples are strictly increasing).
C30_YieldedOnceInArrivalOrder ==
    mode = "continuous" =>
        \A i, j \in 1 .. Len(YieldedSamples(yielded)) :
            i < j => YieldedSamples(yielded)[i] < YieldedSamples(yielded)[j]

====
